---- MODULE Spec2Model ----
(***************************************************************************)
(* Battery-status display widgets of zmk-dongle-display-091-oled.          *)
(*                                                                         *)
(* The repository holds four near-duplicate widget implementations.  One   *)
(* firmware build links exactly one of them, so the model carries a        *)
(* `variant` chosen at start-up:                                           *)
(*   "threshold" widgets/battery_status.c:119-365 (slot chosen by level)   *)
(*   "active"    widgets/battery_status.c:1-117   (index + battery_active) *)
(*   "levels"    unnamed/part_000                 (level array only)       *)
(*   "labels"    unnamed/part_001                 (source + SOURCE_OFFSET) *)
(***************************************************************************)
EXTENDS Integers, Sequences, FiniteSets, TLC

\* ------------------------------------------------------------------ bounds
\* Battery levels drawn for events and for the hardware query: 0..MaxLevel.
MaxLevel == 4

\* ------------------------------------------------------ program constants
ZMK_SPLIT_BLE_PERIPHERAL_COUNT == 2
BATTERY_THRESHOLD == 2
UINT8_MAX == 255
CONFIG_USB_DEVICE_STACK == TRUE

Levels  == 0..MaxLevel
\* Source ids drawn for peripheral events, one of each kind the handlers tell
\* apart: in range (0 .. count-1), the first out of range, and the one that
\* wraps when SOURCE_OFFSET is added in a uint8_t.
Sources == (0..ZMK_SPLIT_BLE_PERIPHERAL_COUNT) \cup {UINT8_MAX}
\* The threshold variant looks at the source id of a zero reading only, and
\* UINT8_MAX is its out-of-range id (no central slot) or its wrapping id.
ThresholdSources == (0..(ZMK_SPLIT_BLE_PERIPHERAL_COUNT - 1)) \cup {UINT8_MAX}
\* zmk_usb_is_powered() on the dongle, which is fed through its USB port; the
\* threshold variant stores the value in slot 0 and never reads it back.
DongleUsbPowered == {TRUE}
\* The levels drawn for the events of the active variant, which tells zero
\* from nonzero levels and otherwise only prints them.
ActiveLevels == {0, 1, MaxLevel}
\* The display instances; the k-th one initialised is called k.
Widgets == {1, 2}
Variants == {"threshold", "active", "levels", "labels"}

\* Markers of the history variable boundSource, outside the uint8_t source ids.
NoSource      == UINT8_MAX + 1
CentralSource == UINT8_MAX + 2

VARIABLES
    variant,                    \* which implementation this build links
    SOURCE_OFFSET,              \* 1 iff CONFIG_ZMK_DONGLE_DISPLAY_DONGLE_BATTERY
    battery_states,             \* threshold: struct battery_state[TOTAL_SLOTS]
    battery_state_valid,        \* threshold: bool[TOTAL_SLOTS]
    boundSource,                \* history: source of the reading that last wrote a slot
    widgets,                    \* sys_slist_t widgets, as the sequence of its nodes
    slist,                      \* active: the pointers of that list (head, tail and
                                \* the next field of every widget->node)
    labels,                     \* threshold: the label children of each widget->obj
    battery_poll_timer_started, \* threshold: the poll timer runs
    battery_poll_timer,         \* threshold: struct k_timer, whether it runs and
                                \* (history) how often it was initialised and started
    listener_started,           \* the display listener of the widget was initialised
    SHOW_PERCENTAGE,            \* active: CONFIG_ZMK_WIDGET_BATTERY_STATUS_SHOW_PERCENTAGE
    battery_state,              \* active, levels: struct battery_status_state
    battery_active,             \* active: bool battery_active[]
    battery_widget_objects,     \* active, levels, labels: the widget whose labels the
                                \* global label array points to (0: none yet)
    outside_written,            \* a store landed outside the array it indexed
    pc,                         \* position of the running handler ("idle": none)
    inflight,                   \* the event the running handler works on
    last                        \* history: the operation that ran last, and its branch

config == <<variant, SOURCE_OFFSET, SHOW_PERCENTAGE>>
varsT  == <<battery_states, battery_state_valid, boundSource,
            battery_poll_timer_started, battery_poll_timer>>
varsId == <<battery_state, battery_active, battery_widget_objects, outside_written,
            slist>>
vars   == <<variant, SOURCE_OFFSET, SHOW_PERCENTAGE, battery_states,
            battery_state_valid, boundSource, widgets, slist, labels,
            battery_poll_timer_started, battery_poll_timer, listener_started,
            battery_state,
            battery_active, battery_widget_objects, outside_written,
            pc, inflight, last>>

uint8(n) == n % (UINT8_MAX + 1)

TOTAL_SLOTS == ZMK_SPLIT_BLE_PERIPHERAL_COUNT + SOURCE_OFFSET
Slots == 0..(TOTAL_SLOTS - 1)

Range(s) == {s[i] : i \in 1..Len(s)}

\* ----------------------------------------------------------- formatting
Digit(d) == CASE d = 0 -> "0" [] d = 1 -> "1" [] d = 2 -> "2" [] d = 3 -> "3"
              [] d = 4 -> "4" [] d = 5 -> "5" [] d = 6 -> "6" [] d = 7 -> "7"
              [] d = 8 -> "8" [] OTHER -> "9"

RECURSIVE Digits(_)
Digits(n) == IF n < 10 THEN <<Digit(n)>> ELSE Digits(n \div 10) \o <<Digit(n % 10)>>

RECURSIVE PadLeft(_, _)
PadLeft(width, s) == IF Len(s) >= width THEN s ELSE PadLeft(width, <<" ">> \o s)

\* printf("%<width>u%%", n)
FmtPercent(width, n) == PadLeft(width, Digits(n)) \o <<"%">>

\* ---------------------------------------------- threshold-match variant
\* What a render pass over the given table shows for slot i: the text of
\* its label, or nothing when the label is hidden (lines 187-192).
slot_shown(states, valid, i) ==
    IF i \in DOMAIN states /\ valid[i] /\ states[i].level # 0
    THEN FmtPercent(3, states[i].level)
    ELSE <<>>

\* No handler runs.  The field shown is history: what the slot the handler
\* writes showed when the handler was entered.
NoEvent == [kind |-> "none", source |-> 0, level |-> 0, usb |-> FALSE, idx |-> 0,
            shown |-> <<>>, todo |-> {}]

ZeroState == [source |-> 0, level |-> 0, usb_present |-> FALSE]

\* A deliberately wrong update_widget_from_global_state: a slot that is not
\* shown has its hidden flag flipped instead of set.
update_widget_toggle_hidden(children, states, valid) ==
    [k \in 1..Len(children) |->
        LET i == k - 1 IN
        IF i \in DOMAIN states /\ valid[i] /\ states[i].level # 0
        THEN [text |-> FmtPercent(3, states[i].level), hidden |-> FALSE]
        ELSE [text |-> children[k].text, hidden |-> ~children[k].hidden]]

\* A deliberately wrong update_widget_from_global_state: the valid flag is not
\* looked at, a slot is shown whenever its stored level is nonzero.
update_widget_ignore_valid(children, states, valid) ==
    [k \in 1..Len(children) |->
        LET i == k - 1 IN
        IF i \in DOMAIN states /\ states[i].level # 0
        THEN [text |-> FmtPercent(3, states[i].level), hidden |-> FALSE]
        ELSE [text |-> children[k].text, hidden |-> TRUE]]

\* update_widget_from_global_state: the labels of one widget after a render
\* pass over the given table.
update_widget_from_global_state(children, states, valid) ==
    [k \in 1..Len(children) |->
        LET i == k - 1 IN
        IF i \in DOMAIN states /\ valid[i] /\ states[i].level # 0
        THEN [text |-> FmtPercent(3, states[i].level), hidden |-> FALSE]
        ELSE [text |-> children[k].text, hidden |-> TRUE]]

\* A deliberately wrong RenderAll: only the instance registered last is rendered.
RenderAll_newest_only(ws, lbls, states, valid) ==
    [w \in Widgets |->
        IF ws # <<>> /\ w = ws[Len(ws)]
        THEN update_widget_from_global_state(lbls[w], states, valid)
        ELSE lbls[w]]

\* SYS_SLIST_FOR_EACH_CONTAINER(&widgets, ...) update_widget_from_global_state
RenderAll(ws, lbls, states, valid) ==
    [w \in Widgets |->
        IF w \in Range(ws)
        THEN update_widget_from_global_state(lbls[w], states, valid)
        ELSE lbls[w]]

battery_status_update_cb(ws, lbls, states, valid) == RenderAll(ws, lbls, states, valid)

abs_diff(a, b) == IF a > b THEN a - b ELSE b - a

RECURSIVE find_matching_from(_, _)
find_matching_from(i, new_level) ==
    IF i >= TOTAL_SLOTS THEN -1
    ELSE IF battery_state_valid[i]
            /\ abs_diff(battery_states[i].level, new_level) <= BATTERY_THRESHOLD
         THEN i
         ELSE find_matching_from(i + 1, new_level)

\* A deliberately wrong find_matching_slot: the tolerance compared with < for <=.
find_matching_slot_strict(new_level) ==
    LET M == {i \in SOURCE_OFFSET..(TOTAL_SLOTS - 1) :
                /\ battery_state_valid[i]
                /\ abs_diff(battery_states[i].level, new_level) < BATTERY_THRESHOLD}
    IN IF M = {} THEN -1 ELSE CHOOSE i \in M : \A j \in M : i <= j

find_matching_slot(new_level) == find_matching_from(SOURCE_OFFSET, new_level)

RECURSIVE find_empty_from(_)
find_empty_from(i) ==
    IF i >= TOTAL_SLOTS THEN -1
    ELSE IF ~battery_state_valid[i] THEN i ELSE find_empty_from(i + 1)

find_empty_slot == find_empty_from(SOURCE_OFFSET)

\* A deliberately wrong clear_slot: the offset of the central slot is left out.
clear_slot_no_offset(source) == uint8(source)

\* The slot a zero reading clears: uint8_t idx = ev->source + SOURCE_OFFSET.
clear_slot(source) == uint8(source + SOURCE_OFFSET)

\* A deliberately wrong target_slot: the fallback overwrites the last slot, not the first.
target_slot_fallback_last(level) ==
    LET m == find_matching_slot(level) IN
    IF m # -1 THEN m
    ELSE LET e == find_empty_slot IN
         IF e # -1 THEN e ELSE TOTAL_SLOTS - 1

\* A deliberately wrong target_slot: an inactive slot is preferred to a matching one.
target_slot_empty_first(level) ==
    LET e == find_empty_slot IN
    IF e # -1 THEN e
    ELSE LET m == find_matching_slot(level) IN
         IF m # -1 THEN m ELSE SOURCE_OFFSET

\* The slot a nonzero reading is written to (lines 262-268).
target_slot(level) ==
    LET m == find_matching_slot(level) IN
    IF m # -1 THEN m
    ELSE LET e == find_empty_slot IN
         IF e # -1 THEN e ELSE SOURCE_OFFSET

\* Which of the three choices target_slot made (history only).
target_case(level) ==
    IF find_matching_slot(level) # -1 THEN "match"
    ELSE IF find_empty_slot # -1 THEN "empty" ELSE "fallback"

\* History only: the write of a reading from `source` to slot idx takes an
\* active slot over from another peripheral source.
rebinds(source, idx) ==
    /\ battery_state_valid[idx]
    /\ boundSource[idx] \in Sources
    /\ boundSource[idx] # source

\* peripheral_battery_status_get_state, for a peripheral event (ev != NULL).
peripheral_battery_status_get_state(source, level) ==
    IF level = 0
    THEN LET idx == clear_slot(source) IN
         /\ battery_state_valid' =
                IF idx < TOTAL_SLOTS
                THEN [battery_state_valid EXCEPT ![idx] = FALSE]
                ELSE battery_state_valid
         /\ UNCHANGED <<battery_states, boundSource>>
    ELSE LET idx == target_slot(level) IN
         /\ battery_states' = [battery_states EXCEPT
                ![idx] = [source |-> idx, level |-> level, usb_present |-> FALSE]]
         /\ battery_state_valid' = [battery_state_valid EXCEPT ![idx] = TRUE]
         /\ boundSource' = [boundSource EXCEPT ![idx] = source]

\* A deliberately wrong central_level: the hardware is queried even when there is an event.
central_level_query(has_ev, soc, hw) == hw

\* The level central_battery_status_get_state stores: the event's, or the
\* hardware query's when there is no central event (ev == NULL).
central_level(has_ev, soc, hw) == IF has_ev THEN soc ELSE hw

\* central_battery_status_get_state: has_ev is (ev != NULL), soc the event's
\* level, hw the value of zmk_battery_state_of_charge(), usb that of
\* zmk_usb_is_powered().
central_battery_status_get_state(has_ev, soc, hw, usb) ==
    IF has_ev /\ soc = 0
    THEN /\ battery_state_valid' = [battery_state_valid EXCEPT ![0] = FALSE]
         /\ UNCHANGED <<battery_states, boundSource>>
    ELSE LET lvl == central_level(has_ev, soc, hw) IN
         /\ battery_states' = [battery_states EXCEPT
                ![0] = [source |-> 0, level |-> lvl,
                        usb_present |-> IF CONFIG_USB_DEVICE_STACK THEN usb
                                        ELSE @.usb_present]]
         /\ battery_state_valid' = [battery_state_valid EXCEPT ![0] = (lvl # 0)]
         /\ boundSource' = [boundSource EXCEPT ![0] = CentralSource]

\* ------------------------------------------------ identity variants
\* Zephyr's singly linked list, as the active variant uses it: NULL is 0.
NULL == 0
EmptyList == [head |-> NULL, tail |-> NULL, next |-> [w \in Widgets |-> NULL]]

\* sys_slist_append: node->next = NULL; then the node becomes the head of an
\* empty list, or tail->next = node; the node is the tail afterwards.
sys_slist_append(list, node) ==
    LET cleared == [list.next EXCEPT ![node] = NULL] IN
    IF list.tail = NULL
    THEN [head |-> node, tail |-> node, next |-> cleared]
    ELSE [head |-> list.head, tail |-> node,
          next |-> [cleared EXCEPT ![list.tail] = node]]

\* The nodes a walk from the head visits, up to the first one it would visit
\* again.
RECURSIVE slist_walk(_, _, _)
slist_walk(list, node, seen) ==
    IF node = NULL \/ node \in Range(seen) THEN seen
    ELSE slist_walk(list, list.next[node], Append(seen, node))

slist_nodes(list) == slist_walk(list, list.head, <<>>)

\* The walk never reaches NULL: SYS_SLIST_FOR_EACH_CONTAINER does not end.
slist_cyclic(list) ==
    LET s == slist_nodes(list) IN
    s # <<>> /\ list.next[s[Len(s)]] # NULL

\* sys_slist_find_and_remove on a list the walk finds the node in:
\* sys_slist_remove(list, prev, node), then node->next = NULL.
sys_slist_remove(list, node) ==
    LET s    == slist_nodes(list)
        k    == CHOOSE i \in 1..Len(s) : s[i] = node
        prev == IF k = 1 THEN NULL ELSE s[k - 1]
        after == list.next[node]
    IN IF prev = NULL
       THEN [head |-> after,
             tail |-> IF list.tail = node THEN after ELSE list.tail,
             next |-> [list.next EXCEPT ![node] = NULL]]
       ELSE [head |-> list.head,
             tail |-> IF list.tail = node THEN prev ELSE list.tail,
             next |-> [list.next EXCEPT ![prev] = after, ![node] = NULL]]
PeripheralSlots == 0..(ZMK_SPLIT_BLE_PERIPHERAL_COUNT - 1)

\* lv_label_create leaves the label with LVGL's default text.
DefaultLabel == [text |-> <<"T", "e", "x", "t">>, hidden |-> FALSE]

\* snprintf(text, sizeof(text), ...) with char text[5]: at most four characters.
snprintf5(s) == SubSeq(s, 1, IF Len(s) < 4 THEN Len(s) ELSE 4)

\* The icon set_battery_symbol picks for a level (active variant, no percentage).
battery_icon(level) ==
    IF level >= 95 THEN "LV_SYMBOL_BATTERY_FULL"
    ELSE IF level >= 70 THEN "LV_SYMBOL_BATTERY_3"
    ELSE IF level >= 45 THEN "LV_SYMBOL_BATTERY_2"
    ELSE IF level >= 20 THEN "LV_SYMBOL_BATTERY_1"
    ELSE "LV_SYMBOL_BATTERY_EMPTY"

\* active variant, set_battery_symbol: one pass over battery_widget_objects.
set_battery_symbol_active(children, level, active) ==
    [k \in 1..Len(children) |->
        LET i == k - 1 IN
        IF ~active[i]
        THEN [children[k] EXCEPT !.text = <<>>]
        ELSE IF SHOW_PERCENTAGE
             THEN [children[k] EXCEPT !.text = snprintf5(Digits(level[i]) \o <<"%">>)]
             ELSE [children[k] EXCEPT !.text = <<battery_icon(level[i])>>]]

\* levels variant, set_battery_symbol: one pass over battery_widget_objects.
set_battery_symbol_levels(children, level) ==
    [k \in 1..Len(children) |->
        LET i == k - 1 IN
        [children[k] EXCEPT !.text =
            IF level[i] > 0 THEN snprintf5(FmtPercent(3, level[i])) ELSE <<>>]]

\* labels variant, set_battery_symbol: the one label state.source names.
set_battery_symbol_labels(children, state) ==
    IF state.source >= ZMK_SPLIT_BLE_PERIPHERAL_COUNT + SOURCE_OFFSET
    THEN children
    ELSE [children EXCEPT ![state.source + 1] =
            [text |-> FmtPercent(4, state.level),
             hidden |-> ~(state.level > 0 \/ state.usb_present)]]

\* SYS_SLIST_FOR_EACH_CONTAINER over `ws`: every pass writes the labels the
\* global array points to, whichever widget the pass is for.
\* A deliberately wrong poll_timer_needs_start: the flag is not looked at.
poll_timer_needs_start_always == TRUE

\* The condition of line 354: if (!battery_poll_timer_started).
poll_timer_needs_start == ~battery_poll_timer_started

\* The end of the init (lines 354-358): k_timer_init and k_timer_start of
\* the poll timer, and the flag, unless the flag is set.
start_poll_timer ==
    IF poll_timer_needs_start
    THEN /\ battery_poll_timer' = [running |-> TRUE, starts |-> battery_poll_timer.starts + 1]
         /\ battery_poll_timer_started' = TRUE
    ELSE UNCHANGED <<battery_poll_timer_started, battery_poll_timer>>

RendersGlobal(ws, owner) == ws # <<>> /\ owner # 0

\* ------------------------------------------------------------------ Init
Init ==
    /\ variant \in Variants
    /\ SOURCE_OFFSET \in {0, 1}
    /\ variant \in {"active", "levels"} => SOURCE_OFFSET = 0
    /\ SHOW_PERCENTAGE \in BOOLEAN
    /\ variant # "active" => SHOW_PERCENTAGE = TRUE
    /\ battery_states = [i \in Slots |-> ZeroState]
    /\ battery_state_valid = [i \in Slots |-> FALSE]
    /\ boundSource = [i \in Slots |-> NoSource]
    /\ widgets = <<>>
    /\ slist = EmptyList
    /\ labels = [w \in Widgets |-> <<>>]
    /\ battery_poll_timer_started = FALSE
    /\ battery_poll_timer = [running |-> FALSE, starts |-> 0]
    /\ listener_started = FALSE
    /\ battery_state = [level |-> [i \in PeripheralSlots |-> 0]]
    /\ battery_active = [i \in PeripheralSlots |-> FALSE]
    /\ battery_widget_objects = 0
    /\ outside_written = FALSE
    /\ pc = "idle"
    /\ inflight = NoEvent
    /\ last = [op |-> "none", case |-> "none", rebound |-> FALSE]

\* ------------------------------------------- actions, handlers run whole
\* zmk_widget_dongle_battery_status_init: create the labels, append the
\* widget, initialise the listener (state getter with a NULL event, then
\* the update callback), start the poll timer once.
DongleInit(w, hw, usb) ==
    /\ variant = "threshold" /\ pc = "idle"
    /\ w = Len(widgets) + 1
    /\ widgets' = Append(widgets, w)
    /\ central_battery_status_get_state(FALSE, 0, hw, usb)
    /\ labels' = battery_status_update_cb(widgets',
            [labels EXCEPT ![w] = [k \in 1..TOTAL_SLOTS |-> [text |-> <<>>, hidden |-> FALSE]]],
            battery_states', battery_state_valid')
    /\ listener_started' = TRUE
    /\ start_poll_timer
    /\ last' = [op |-> "init", case |-> "query", rebound |-> FALSE]
    /\ UNCHANGED <<config, varsId, pc, inflight>>

\* battery_status_get_state on a peripheral event, then the update callback.
PeripheralEvent(source, level) ==
    /\ variant = "threshold" /\ pc = "idle" /\ listener_started
    /\ peripheral_battery_status_get_state(source, level)
    /\ labels' = battery_status_update_cb(widgets, labels, battery_states', battery_state_valid')
    /\ last' = [op |-> "peripheral",
                case |-> IF level = 0 THEN "clear" ELSE target_case(level),
                rebound |-> level # 0 /\ rebinds(source, target_slot(level))]
    /\ UNCHANGED <<config, varsId, widgets, battery_poll_timer_started, battery_poll_timer,
                   listener_started, pc, inflight>>

\* battery_status_get_state on a central battery event (subscribed only with
\* CONFIG_ZMK_DONGLE_DISPLAY_DONGLE_BATTERY), then the update callback.
CentralEvent(soc, usb) ==
    /\ variant = "threshold" /\ pc = "idle" /\ listener_started
    /\ SOURCE_OFFSET = 1
    /\ central_battery_status_get_state(TRUE, soc, 0, usb)
    /\ labels' = battery_status_update_cb(widgets, labels, battery_states', battery_state_valid')
    /\ last' = [op |-> "central", case |-> IF soc = 0 THEN "clear" ELSE "event",
                rebound |-> FALSE]
    /\ UNCHANGED <<config, varsId, widgets, battery_poll_timer_started, battery_poll_timer,
                   listener_started, pc, inflight>>

\* battery_status_get_state on a USB connection event: neither a peripheral
\* nor a central battery event, it takes the else branch of the dispatch.
UsbEvent(hw, usb) ==
    /\ variant = "threshold" /\ pc = "idle" /\ listener_started
    /\ SOURCE_OFFSET = 1 /\ CONFIG_USB_DEVICE_STACK
    /\ central_battery_status_get_state(FALSE, 0, hw, usb)
    /\ labels' = battery_status_update_cb(widgets, labels, battery_states', battery_state_valid')
    /\ last' = [op |-> "usb", case |-> "query", rebound |-> FALSE]
    /\ UNCHANGED <<config, varsId, widgets, battery_poll_timer_started, battery_poll_timer,
                   listener_started, pc, inflight>>

\* battery_poll_timer_handler: a render pass over every registered widget.
\* It is the expiry function given to k_timer_init, so it runs in the timer
\* interrupt, wherever the interrupted handler stands (pc).
Tick ==
    /\ variant = "threshold"
    /\ battery_poll_timer_started
    /\ labels' = RenderAll(widgets, labels, battery_states, battery_state_valid)
    /\ last' = [op |-> "tick", case |-> IF pc = "idle" THEN "none" ELSE "preempt",
                rebound |-> FALSE]
    /\ UNCHANGED <<config, varsT, varsId, widgets, listener_started, pc, inflight>>

\* ---- active variant (battery_status.c:1-117)
\* zmk_widget_peripheral_battery_status_init: create the object and its
\* labels, point the global label array at them, append the node.  Nothing
\* checks whether the node is in the list already.
ActiveInit(w) ==
    /\ variant = "active" /\ pc = "idle"
    /\ labels' = [labels EXCEPT ![w] =
            [k \in 1..ZMK_SPLIT_BLE_PERIPHERAL_COUNT |-> [text |-> <<>>, hidden |-> FALSE]]]
    /\ battery_widget_objects' = w
    /\ slist' = sys_slist_append(slist, w)
    /\ widgets' = slist_nodes(slist')
    /\ last' = [op |-> "init", case |-> "none", rebound |-> FALSE]
    /\ UNCHANGED <<config, varsT, listener_started, battery_state, battery_active,
                   outside_written, pc, inflight>>

\* zmk_widget_peripheral_battery_status_cleanup: sys_slist_find_and_remove,
\* then lv_obj_del(widget->obj), which deletes the labels with it.  The search
\* for a node that is not in a list without an end never returns.
ActiveCleanup(w) ==
    /\ variant = "active" /\ pc = "idle"
    /\ labels[w] # <<>>
    /\ LET found == w \in Range(slist_nodes(slist)) IN
       IF ~found /\ slist_cyclic(slist)
       THEN /\ pc' = "hang"
            /\ UNCHANGED <<slist, widgets, labels>>
       ELSE /\ slist' = IF found THEN sys_slist_remove(slist, w) ELSE slist
            /\ widgets' = slist_nodes(slist')
            /\ labels' = [labels EXCEPT ![w] = <<>>]
            /\ pc' = pc
    /\ last' = [op |-> "cleanup", case |-> "none", rebound |-> FALSE]
    /\ UNCHANGED <<config, varsT, listener_started, battery_state, battery_active,
                   battery_widget_objects, outside_written, inflight>>

\* battery_status_event_handler on a peripheral battery event.  The loop
\* over the registry writes the labels of the global array on every pass; it
\* does not end on a list without an end, and labels deleted by a cleanup
\* are written through dangling pointers, which is undefined: the store lands
\* in freed memory and the firmware survives it or faults.
battery_status_event_handler(index, level) ==
    LET idx == uint8(index)
        looped == IF slist_cyclic(slist) THEN "hang" ELSE pc
    IN
    /\ IF idx < ZMK_SPLIT_BLE_PERIPHERAL_COUNT
       THEN /\ battery_state' = [battery_state EXCEPT !.level[idx] = level]
            /\ battery_active' = [battery_active EXCEPT ![idx] = TRUE]
       ELSE UNCHANGED <<battery_state, battery_active>>
    /\ IF ~RendersGlobal(widgets, battery_widget_objects)
       THEN UNCHANGED <<labels, outside_written, pc>>
       ELSE IF labels[battery_widget_objects] = <<>>
            THEN /\ outside_written' = TRUE
                 /\ pc' \in {looped, "fault"}
                 /\ UNCHANGED labels
            ELSE /\ labels' = [labels EXCEPT ![battery_widget_objects] =
                         set_battery_symbol_active(@, battery_state'.level,
                                                   battery_active')]
                 /\ pc' = looped
                 /\ UNCHANGED outside_written

ActiveEvent(index, level) ==
    /\ variant = "active" /\ pc = "idle"
    /\ battery_status_event_handler(index, level)
    /\ last' = [op |-> "peripheral",
                case |-> IF uint8(index) < ZMK_SPLIT_BLE_PERIPHERAL_COUNT
                         THEN "store" ELSE "drop",
                rebound |-> FALSE]
    /\ UNCHANGED <<config, varsT, widgets, slist, listener_started,
                   battery_widget_objects, inflight>>

\* battery_status_event_handler on any other event: return -ENOTSUP.
ActiveOtherEvent ==
    /\ variant = "active" /\ pc = "idle"
    /\ last' = [op |-> "other", case |-> "unsupported", rebound |-> FALSE]
    /\ UNCHANGED <<config, varsT, varsId, widgets, labels, listener_started, pc, inflight>>

\* ---- levels variant (unnamed/part_000)
\* battery_status_get_state: battery_state.level[ev->source] = ev->state_of_charge,
\* with no check of the index.  A store past the array is undefined: it lands
\* in whatever lies behind the array, and the firmware survives it or faults.
levels_get_state(source, level, survives) ==
    IF source < ZMK_SPLIT_BLE_PERIPHERAL_COUNT
    THEN /\ battery_state' = [battery_state EXCEPT !.level[source] = level]
         /\ UNCHANGED outside_written
         /\ pc' = pc
    ELSE /\ outside_written' = TRUE
         /\ pc' = IF survives THEN pc ELSE "fault"
         /\ UNCHANGED battery_state

\* battery_status_update_cb of the levels variant, on the state returned.
levels_update_cb(lbls, state) ==
    IF RendersGlobal(widgets', battery_widget_objects')
    THEN [lbls EXCEPT ![battery_widget_objects'] =
            set_battery_symbol_levels(@, state.level)]
    ELSE lbls

\* zmk_widget_peripheral_battery_status_init.  The listener's init calls the
\* state getter with a NULL event, which the getter dereferences: undefined.
\* The read faults, or yields whatever bytes lie there as source and level.
LevelsInit(w, faults, source, level, survives) ==
    /\ variant = "levels" /\ pc = "idle"
    /\ w = Len(widgets) + 1
    /\ battery_widget_objects' = w
    /\ widgets' = Append(widgets, w)
    /\ IF faults
       THEN /\ pc' = "fault"
            /\ labels' = [labels EXCEPT ![w] =
                    [k \in 1..ZMK_SPLIT_BLE_PERIPHERAL_COUNT |-> DefaultLabel]]
            /\ UNCHANGED <<battery_state, outside_written, listener_started>>
       ELSE /\ levels_get_state(source, level, survives)
            /\ labels' = levels_update_cb([labels EXCEPT ![w] =
                    [k \in 1..ZMK_SPLIT_BLE_PERIPHERAL_COUNT |-> DefaultLabel]],
                    battery_state')
            /\ listener_started' = TRUE
    /\ last' = [op |-> "init", case |-> "none", rebound |-> FALSE]
    /\ UNCHANGED <<config, varsT, battery_active, inflight, slist>>

LevelsEvent(source, level, survives) ==
    /\ variant = "levels" /\ pc = "idle" /\ listener_started
    /\ levels_get_state(source, level, survives)
    /\ UNCHANGED <<widgets, battery_widget_objects>>
    /\ labels' = levels_update_cb(labels, battery_state')
    /\ last' = [op |-> "peripheral",
                case |-> IF source < ZMK_SPLIT_BLE_PERIPHERAL_COUNT
                         THEN "store" ELSE "outside",
                rebound |-> FALSE]
    /\ UNCHANGED <<config, varsT, listener_started, battery_active, inflight, slist>>

\* ---- labels variant (unnamed/part_001)
\* peripheral_battery_status_get_state: .source is a uint8_t.
labels_peripheral_state(source, level) ==
    [source |-> uint8(source + SOURCE_OFFSET), level |-> level, usb_present |-> FALSE]

\* central_battery_status_get_state
labels_central_state(has_ev, soc, hw, usb) ==
    [source |-> 0, level |-> IF has_ev THEN soc ELSE hw,
     usb_present |-> IF CONFIG_USB_DEVICE_STACK THEN usb ELSE FALSE]

\* battery_status_update_cb of the labels variant.
labels_update_cb(lbls, state) ==
    IF RendersGlobal(widgets', battery_widget_objects')
    THEN [lbls EXCEPT ![battery_widget_objects'] =
            set_battery_symbol_labels(@, state)]
    ELSE lbls

\* zmk_widget_dongle_battery_status_init of the labels variant.
LabelsInit(w, hw, usb) ==
    /\ variant = "labels" /\ pc = "idle"
    /\ w = Len(widgets) + 1
    /\ battery_widget_objects' = w
    /\ widgets' = Append(widgets, w)
    /\ labels' = labels_update_cb([labels EXCEPT ![w] =
            [k \in 1..TOTAL_SLOTS |-> [DefaultLabel EXCEPT !.hidden = TRUE]]],
            labels_central_state(FALSE, 0, hw, usb))
    /\ listener_started' = TRUE
    /\ last' = [op |-> "init", case |-> "query", rebound |-> FALSE]
    /\ UNCHANGED <<config, varsT, battery_state, battery_active, outside_written,
                   pc, inflight, slist>>

LabelsPeripheralEvent(source, level) ==
    /\ variant = "labels" /\ pc = "idle" /\ listener_started
    /\ UNCHANGED <<widgets, battery_widget_objects>>
    /\ labels' = labels_update_cb(labels, labels_peripheral_state(source, level))
    /\ last' = [op |-> "peripheral",
                case |-> IF uint8(source + SOURCE_OFFSET) < TOTAL_SLOTS
                         THEN "store" ELSE "drop",
                rebound |-> FALSE]
    /\ UNCHANGED <<config, varsT, listener_started, battery_state, battery_active,
                   outside_written, pc, inflight, slist>>

\* battery_status_get_state on a central battery event, then the callback.
LabelsCentralEvent(soc, usb) ==
    /\ variant = "labels" /\ pc = "idle" /\ listener_started
    /\ SOURCE_OFFSET = 1
    /\ UNCHANGED <<widgets, battery_widget_objects>>
    /\ labels' = labels_update_cb(labels, labels_central_state(TRUE, soc, 0, usb))
    /\ last' = [op |-> "central", case |-> "event", rebound |-> FALSE]
    /\ UNCHANGED <<config, varsT, listener_started, battery_state, battery_active,
                   outside_written, pc, inflight, slist>>

\* battery_status_get_state on a USB connection event, then the callback.
LabelsUsbEvent(hw, usb) ==
    /\ variant = "labels" /\ pc = "idle" /\ listener_started
    /\ SOURCE_OFFSET = 1 /\ CONFIG_USB_DEVICE_STACK
    /\ UNCHANGED <<widgets, battery_widget_objects>>
    /\ labels' = labels_update_cb(labels, labels_central_state(FALSE, 0, hw, usb))
    /\ last' = [op |-> "usb", case |-> "query", rebound |-> FALSE]
    /\ UNCHANGED <<config, varsT, listener_started, battery_state, battery_active,
                   outside_written, pc, inflight, slist>>

\* ------------------------------------------------------------------ Next
\* Spec runs every handler whole, with one display instance in the threshold
\* and labels variants and up to two in the others.
Next ==
    \/ \E hw \in Levels, usb \in DongleUsbPowered : DongleInit(1, hw, usb)
    \/ \E s \in ThresholdSources, l \in Levels : PeripheralEvent(s, l)
    \/ \E l \in Levels, usb \in DongleUsbPowered : CentralEvent(l, usb)
    \/ \E hw \in Levels, usb \in DongleUsbPowered : UsbEvent(hw, usb)
    \/ Tick
    \/ \E w \in Widgets : ActiveInit(w)
    \/ \E w \in Widgets : ActiveCleanup(w)
    \/ \E s \in Sources, l \in ActiveLevels : ActiveEvent(s, l)
    \/ ActiveOtherEvent
    \/ \E w \in Widgets, f \in BOOLEAN, s \in Sources, l \in Levels, v \in BOOLEAN :
            LevelsInit(w, f, s, l, v)
    \/ \E s \in Sources, l \in Levels, v \in BOOLEAN : LevelsEvent(s, l, v)
    \/ \E hw \in Levels, usb \in BOOLEAN : LabelsInit(1, hw, usb)
    \/ \E s \in Sources, l \in Levels : LabelsPeripheralEvent(s, l)
    \/ \E l \in Levels, usb \in BOOLEAN : LabelsCentralEvent(l, usb)
    \/ \E hw \in Levels, usb \in BOOLEAN : LabelsUsbEvent(hw, usb)

Spec == Init /\ [][Next]_vars

\* ------------------------------- threshold variant, handlers step by step
\* SpecIsr runs the handlers of the threshold variant one store at a time,
\* so that the timer interrupt can fall between any two of them.
IsrLevels  == {0, 1, MaxLevel}
IsrSources == {0, UINT8_MAX}

WriteSteps == {"p_clear", "p_store",
               "c_clear", "c_source", "c_level", "c_usb", "c_valid"}

\* The four stores of a nonzero peripheral reading (lines 269-272).  The
\* variables are plain statics, no call and no barrier stands between the
\* stores, and the timer interrupt reads them unsynchronised: the build may
\* emit the stores in any order.
PeripheralStores == {"source", "level", "usb_present", "valid"}

\* battery_status_get_state is entered with a peripheral event: the slot is
\* chosen (lines 255-268), the stores follow.
BeginPeripheral(source, level) ==
    /\ variant = "threshold" /\ pc = "idle" /\ listener_started
    /\ inflight' = [kind |-> "peripheral", source |-> source, level |-> level,
                    usb |-> FALSE,
                    idx |-> IF level = 0 THEN clear_slot(source) ELSE target_slot(level),
                    shown |-> slot_shown(battery_states, battery_state_valid,
                                IF level = 0 THEN clear_slot(source) ELSE target_slot(level)),
                    todo |-> IF level = 0 THEN {} ELSE PeripheralStores]
    /\ pc' = IF level = 0 THEN "p_clear" ELSE "p_store"
    /\ last' = [op |-> "peripheral",
                case |-> IF level = 0 THEN "clear" ELSE target_case(level),
                rebound |-> level # 0 /\ rebinds(source, target_slot(level))]
    /\ UNCHANGED <<config, varsT, varsId, widgets, labels, listener_started>>

\* battery_status_get_state is entered with a central battery event
\* (has_ev) or a USB connection event (~has_ev).
BeginCentral(has_ev, soc, hw, usb) ==
    /\ variant = "threshold" /\ pc = "idle" /\ listener_started
    /\ SOURCE_OFFSET = 1
    /\ has_ev \/ CONFIG_USB_DEVICE_STACK
    /\ inflight' = [kind |-> IF has_ev THEN "central" ELSE "usb", source |-> 0,
                    level |-> central_level(has_ev, soc, hw), usb |-> usb, idx |-> 0,
                    shown |-> slot_shown(battery_states, battery_state_valid, 0),
                    todo |-> {}]
    /\ pc' = IF has_ev /\ soc = 0 THEN "c_clear" ELSE "c_source"
    /\ last' = [op |-> IF has_ev THEN "central" ELSE "usb",
                case |-> IF has_ev /\ soc = 0 THEN "clear" ELSE "event",
                rebound |-> FALSE]
    /\ UNCHANGED <<config, varsT, varsId, widgets, labels, listener_started>>

\* zmk_widget_dongle_battery_status_init up to the append (lines 333-346):
\* the labels are created; hw and usb are what the listener's init will
\* read from the hardware.
BeginInit(w, hw, usb) ==
    /\ variant = "threshold" /\ pc = "idle"
    /\ w = Len(widgets) + 1
    /\ labels' = [labels EXCEPT ![w] =
            [k \in 1..TOTAL_SLOTS |-> [text |-> <<>>, hidden |-> FALSE]]]
    /\ inflight' = [kind |-> "init", source |-> 0,
                    level |-> central_level(FALSE, 0, hw), usb |-> usb, idx |-> 0,
                    shown |-> slot_shown(battery_states, battery_state_valid, 0),
                    todo |-> {}]
    /\ pc' = "i_append"
    /\ last' = [op |-> "init", case |-> "query", rebound |-> FALSE]
    /\ UNCHANGED <<config, varsT, varsId, widgets, listener_started>>

\* The steps of an init at which sys_slist_append has been entered and has
\* not returned.
AppendSteps == {"i_append", "i_tail"}

\* sys_slist_append (line 348), one store at a time: first the node is
\* linked behind the tail (or made the head), which puts it on the path of
\* a walk; then the tail pointer is moved to it.  The state getter with a
\* NULL event comes next.
AppendNode ==
    /\ variant = "threshold"
    /\ \/ /\ pc = "i_append"
          /\ widgets' = Append(widgets, Len(widgets) + 1)
          /\ pc' = "i_tail"
       \/ /\ pc = "i_tail"
          /\ UNCHANGED widgets
          /\ pc' = "c_source"
    /\ UNCHANGED <<config, varsT, varsId, labels, listener_started, inflight, last>>

\* The store f of a nonzero peripheral reading into slot idx.
peripheral_store(f, idx) ==
    /\ battery_states' =
            IF f = "source" THEN [battery_states EXCEPT ![idx].source = idx]
            ELSE IF f = "level" THEN [battery_states EXCEPT ![idx].level = inflight.level]
            ELSE IF f = "usb_present" THEN [battery_states EXCEPT ![idx].usb_present = FALSE]
            ELSE battery_states
    /\ battery_state_valid' =
            IF f = "valid" THEN [battery_state_valid EXCEPT ![idx] = TRUE]
            ELSE battery_state_valid
    /\ boundSource' =
            IF f = "valid" THEN [boundSource EXCEPT ![idx] = inflight.source]
            ELSE boundSource

\* One store of peripheral_battery_status_get_state (lines 258, 269-272):
\* the only store of a zero reading, or any of the stores of a nonzero
\* reading that is still to be made.
PeripheralStore ==
    /\ variant = "threshold"
    /\ \/ /\ pc = "p_clear"
          /\ battery_state_valid' =
                IF inflight.idx < TOTAL_SLOTS
                THEN [battery_state_valid EXCEPT ![inflight.idx] = FALSE]
                ELSE battery_state_valid
          /\ UNCHANGED <<battery_states, boundSource, inflight>>
          /\ pc' = "notify"
       \/ /\ pc = "p_store"
          /\ \E f \in inflight.todo :
                /\ peripheral_store(f, inflight.idx)
                /\ inflight' = [inflight EXCEPT !.todo = @ \ {f}]
                /\ pc' = IF inflight.todo = {f} THEN "notify" ELSE "p_store"
    /\ UNCHANGED <<config, varsId, widgets, labels, battery_poll_timer_started,
                   battery_poll_timer,
                   listener_started, last>>

\* One store of central_battery_status_get_state (lines 285, 288-293).
CentralStore ==
    /\ variant = "threshold"
    /\ \/ /\ pc = "c_clear"
          /\ battery_state_valid' = [battery_state_valid EXCEPT ![0] = FALSE]
          /\ UNCHANGED <<battery_states, boundSource>>
          /\ pc' = "notify"
       \/ /\ pc = "c_source"
          /\ battery_states' = [battery_states EXCEPT ![0].source = 0]
          /\ UNCHANGED <<battery_state_valid, boundSource>>
          /\ pc' = "c_level"
       \/ /\ pc = "c_level"
          /\ battery_states' = [battery_states EXCEPT ![0].level = inflight.level]
          /\ UNCHANGED <<battery_state_valid, boundSource>>
          /\ pc' = "c_usb"
       \/ /\ pc = "c_usb"
          /\ battery_states' = [battery_states EXCEPT ![0].usb_present =
                IF CONFIG_USB_DEVICE_STACK THEN inflight.usb ELSE @]
          /\ UNCHANGED <<battery_state_valid, boundSource>>
          /\ pc' = "c_valid"
       \/ /\ pc = "c_valid"
          /\ battery_state_valid' = [battery_state_valid EXCEPT
                ![0] = (battery_states[0].level # 0)]
          /\ boundSource' = [boundSource EXCEPT ![0] = CentralSource]
          /\ UNCHANGED battery_states
          /\ pc' = "notify"
    /\ UNCHANGED <<config, varsId, widgets, labels, battery_poll_timer_started,
                   battery_poll_timer,
                   listener_started, inflight, last>>

\* The update callback after the state getter; for an init, the listener is
\* then started and the poll timer comes next.
Notify ==
    /\ variant = "threshold" /\ pc = "notify"
    /\ labels' = battery_status_update_cb(widgets, labels, battery_states, battery_state_valid)
    /\ listener_started' = (listener_started \/ inflight.kind = "init")
    /\ pc' = IF inflight.kind = "init" THEN "i_timer" ELSE "idle"
    /\ inflight' = IF inflight.kind = "init" THEN inflight ELSE NoEvent
    /\ UNCHANGED <<config, varsT, varsId, widgets, last>>

\* The last lines of the init (354-358): start the poll timer if not started.
StartTimer ==
    /\ variant = "threshold" /\ pc = "i_timer"
    /\ start_poll_timer
    /\ pc' = "idle"
    /\ inflight' = NoEvent
    /\ UNCHANGED <<config, battery_states, battery_state_valid, boundSource, varsId,
                   widgets, labels, listener_started, last>>

InitIsr ==
    /\ Init
    /\ variant = "threshold"

NextIsr ==
    \/ \E w \in Widgets, hw \in IsrLevels : BeginInit(w, hw, TRUE)
    \/ \E s \in IsrSources, l \in IsrLevels : BeginPeripheral(s, l)
    \/ \E e \in BOOLEAN, l \in IsrLevels : BeginCentral(e, l, l, TRUE)
    \/ AppendNode
    \/ PeripheralStore
    \/ CentralStore
    \/ Notify
    \/ StartTimer
    \/ Tick

SpecIsr == InitIsr /\ [][NextIsr]_vars

\* ================================================================ claims
NonReserved == SOURCE_OFFSET..(TOTAL_SLOTS - 1)
ActiveNonReserved == {i \in NonReserved : battery_state_valid[i]}

\* The label of slot i that the global label array of the identity variants
\* points to.
GlobalLabel(lbls, i) == lbls[battery_widget_objects][i + 1]

\* C1: with SOURCE_OFFSET = 1 a peripheral reading never writes, activates or
\* deactivates slot 0: neither the threshold handler (table entry 0) nor the
\* labels variant's identity handler (label 0) touches it.
C1_PeripheralLeavesSlot0 ==
    [][(SOURCE_OFFSET = 1 /\ last'.op = "peripheral")
        => /\ battery_states'[0] = battery_states[0]
           /\ battery_state_valid'[0] = battery_state_valid[0]
           /\ variant = "labels" => \A w \in Range(widgets) : labels'[w][1] = labels[w][1]]_vars

\* C2: in the threshold variant a zero reading from source s deactivates
\* exactly the slots bound to s (last written by a reading from s) and changes
\* nothing else; with no slot bound to s the table is unchanged.
C2_ZeroClearsBoundSlot ==
    [][\A s \in Sources :
        PeripheralEvent(s, 0)
        => /\ battery_states' = battery_states
           /\ battery_state_valid' =
                [i \in Slots |-> IF boundSource[i] = s THEN FALSE
                                 ELSE battery_state_valid[i]]]_vars

\* C3: in the threshold variant no two active slots are bound to the same
\* peripheral source.
C3_OneActiveSlotPerSource ==
    \A i, j \in Slots :
        (i # j /\ battery_state_valid[i] /\ battery_state_valid[j]
            /\ boundSource[i] \in Sources)
        => boundSource[i] # boundSource[j]

\* C4: in the identity variants (active, levels) a zero reading for a slot
\* leaves that slot inactive and its label blank.
C4_ZeroReadingBlanksSlot ==
    [][\A s \in PeripheralSlots :
        /\ ActiveEvent(s, 0)
           => /\ ~battery_active'[s]
              /\ widgets # <<>> => GlobalLabel(labels', s).text = <<>>
        /\ (\E v \in BOOLEAN : LevelsEvent(s, 0, v))
           => /\ battery_state'.level[s] = 0
              /\ GlobalLabel(labels', s).text = <<>>]_vars

\* C5: in the identity variants a peripheral reading whose slot index
\* source + offset lies outside [0, N) is discarded: no table entry, no
\* memory outside the table and no label is written for it.
C5_OutOfRangeDiscarded ==
    [][\A s \in Sources, l \in Levels :
        /\ (s >= ZMK_SPLIT_BLE_PERIPHERAL_COUNT /\ ActiveEvent(s, l))
           => UNCHANGED <<battery_state, battery_active, outside_written>>
        /\ (s >= ZMK_SPLIT_BLE_PERIPHERAL_COUNT /\ \E v \in BOOLEAN : LevelsEvent(s, l, v))
           => UNCHANGED <<battery_state, outside_written, labels>>
        /\ (s + SOURCE_OFFSET >= TOTAL_SLOTS /\ LabelsPeripheralEvent(s, l))
           => UNCHANGED labels]_vars

\* C6: an event that is neither a peripheral nor a central battery reading (a
\* USB connection event, the NULL event of widget init, any event the active
\* variant does not know) mutates no slot, reserved central slot or not.
C6_OtherEventsMutateNothing ==
    [][(variant \in {"threshold", "active"} /\ last'.op \in {"usb", "init", "other"})
        => UNCHANGED <<battery_states, battery_state_valid, battery_state,
                       battery_active>>]_vars

\* C7: the tick runs on the same serialized context as the handlers: its
\* render pass never runs while a battery event handler or a widget init is
\* in progress, between two of its steps.
C7_TickNeverInsideHandler ==
    [][Tick => pc = "idle"]_vars

\* C8: in the threshold variant, with every non-reserved slot active and a
\* nonzero reading more than the tolerance away from each of them, slot
\* SOURCE_OFFSET takes the reading and every other slot keeps its level and
\* active flag.
C8_FallbackOverwritesFirstSlot ==
    [][(last'.op = "peripheral" /\ variant = "threshold" /\ ActiveNonReserved = NonReserved)
        => \A l \in Levels \ {0} :
            (\A i \in NonReserved : abs_diff(battery_states[i].level, l) > BATTERY_THRESHOLD)
            => \A s \in ThresholdSources :
                PeripheralEvent(s, l)
                => /\ battery_states'[SOURCE_OFFSET].level = l
                   /\ battery_state_valid'[SOURCE_OFFSET]
                   /\ \A i \in Slots \ {SOURCE_OFFSET} :
                        /\ battery_states'[i].level = battery_states[i].level
                        /\ battery_state_valid'[i] = battery_state_valid[i]]_vars

\* C8 witness: a reading has just been written by the fallback branch.
C8_Witness ==
    /\ variant = "threshold"
    /\ last.op = "peripheral" /\ last.case = "fallback"
    /\ ActiveNonReserved = NonReserved

\* C9: in the threshold variant, with exactly one non-reserved slot active,
\* written by source A at level a, a nonzero reading b from another source B
\* with |a - b| <= 2 is written to that slot (level b, active, bound to B) and
\* no other non-reserved slot becomes active.
C9_NearLevelsCoalesce ==
    [][(last'.op = "peripheral" /\ variant = "threshold"
            /\ Cardinality(ActiveNonReserved) = 1)
        => \A i \in ActiveNonReserved, B \in ThresholdSources, b \in Levels \ {0} :
            ( /\ boundSource[i] \in Sources \ {B}
              /\ abs_diff(battery_states[i].level, b) <= BATTERY_THRESHOLD
              /\ PeripheralEvent(B, b) )
            => /\ battery_states'[i].level = b
               /\ battery_state_valid'[i]
               /\ boundSource'[i] = B
               /\ \A j \in NonReserved \ {i} : ~battery_state_valid'[j]]_vars

\* C9 witness: a reading has just taken the only active non-reserved slot over
\* from another source by matching its level.
C9_Witness ==
    /\ variant = "threshold"
    /\ last.op = "peripheral" /\ last.case = "match" /\ last.rebound
    /\ Cardinality(ActiveNonReserved) = 1

\* C10, as claimed: after any central update (a central event with any level,
\* or the hardware query when there is no event) slot 0 holds the reported
\* level and is active iff that level is nonzero.
C10_CentralStoresReportedLevel ==
    [][/\ (variant = "threshold" /\ last'.op = "central") =>
            \A soc \in Levels, usb \in DongleUsbPowered :
                CentralEvent(soc, usb)
                => /\ battery_states'[0].level = soc
                   /\ battery_state_valid'[0] = (soc # 0)
       /\ (variant = "threshold" /\ last'.op \in {"usb", "init"}) =>
            \A hw \in Levels, usb \in DongleUsbPowered :
                (UsbEvent(hw, usb) \/ DongleInit(1, hw, usb))
                => /\ battery_states'[0].level = hw
                   /\ battery_state_valid'[0] = (hw # 0)]_vars

\* C10, amended: slot 0 is active iff the reported level is nonzero, and it
\* holds the reported level except after a central event with level 0, which
\* leaves the stored level as it was.
C10_CentralStoresNonzeroLevel ==
    [][/\ (variant = "threshold" /\ last'.op = "central") =>
            \A soc \in Levels, usb \in DongleUsbPowered :
                CentralEvent(soc, usb)
                => /\ battery_states'[0].level = IF soc = 0 THEN battery_states[0].level ELSE soc
                   /\ battery_state_valid'[0] = (soc # 0)
       /\ (variant = "threshold" /\ last'.op \in {"usb", "init"}) =>
            \A hw \in Levels, usb \in DongleUsbPowered :
                (UsbEvent(hw, usb) \/ DongleInit(1, hw, usb))
                => /\ battery_states'[0].level = hw
                   /\ battery_state_valid'[0] = (hw # 0)]_vars

\* C10 witness: a central event with level 0 has just cleared slot 0, which
\* still holds the nonzero level stored before.
C10_Witness ==
    /\ variant = "threshold"
    /\ last.op = "central" /\ last.case = "clear"
    /\ ~battery_state_valid[0] /\ battery_states[0].level # 0

\* What a display instance shows: per slot, the text of the label, or nothing
\* when the label is hidden.
Shown(children) ==
    [k \in 1..Len(children) |->
        IF children[k].hidden THEN <<>> ELSE children[k].text]

\* C11: after every refresh pass (a battery event's update or a tick) all the
\* registered display instances show the same thing in every slot.
C11_AllInstancesRenderAlike ==
    [][(last'.op \in {"peripheral", "central", "usb", "tick"} /\ pc' # "fault")
        => \A w1, w2 \in Range(widgets') :
            Shown(labels'[w1]) = Shown(labels'[w2])]_vars

\* The labels of instance w are what a render pass over the current table
\* leaves: rendering it again changes nothing.
Rendered(w) ==
    labels[w] = update_widget_from_global_state(labels[w], battery_states,
                                                battery_state_valid)

\* SpecIsr with the scheduling the firmware has: a handler that has started
\* runs on to its end, and the poll timer, once started, keeps expiring.
\* Events and inits themselves may never come.
SpecIsrFair ==
    /\ SpecIsr
    /\ WF_vars(AppendNode)
    /\ WF_vars(PeripheralStore)
    /\ WF_vars(CentralStore)
    /\ WF_vars(Notify)
    /\ WF_vars(StartTimer)
    /\ WF_vars(Tick)

\* C12: in the threshold variant every registered display instance, also one
\* registered after readings were applied, is eventually rendered with the
\* current table by a tick, whether or not another battery event arrives.
C12_TickRendersLateInstance ==
    \A w \in Widgets :
        [](w \in Range(widgets) => <>(last.op = "tick" /\ Rendered(w)))

\* C12 witness: while the second instance is still in its init, after a
\* reading was applied, a tick has rendered it and it shows that reading.
C12_Witness ==
    /\ Len(widgets) = 2
    /\ inflight.kind = "init" /\ pc \in WriteSteps
    /\ last.op = "tick" /\ Rendered(2)
    /\ \E i \in NonReserved :
        /\ battery_state_valid[i] /\ boundSource[i] \in Sources
        /\ ~labels[2][i + 1].hidden

\* The render calls one pass over the registry issues: per registered
\* instance and slot, the text to show, or "hide".
RenderCalls(ws, states, valid) ==
    [w \in Range(ws) |->
        [i \in Slots |->
            IF valid[i] /\ states[i].level # 0
            THEN FmtPercent(3, states[i].level)
            ELSE <<"hide">>]]

\* C13: a tick changes neither battery_states nor battery_state_valid nor the
\* registry, so the tick after it issues the same render calls, and those
\* calls leave every label as the first tick left it.
C13_TickIdempotent ==
    [][Tick
        => /\ UNCHANGED <<battery_states, battery_state_valid>>
           /\ RenderCalls(widgets', battery_states', battery_state_valid')
                = RenderCalls(widgets, battery_states, battery_state_valid)
           /\ RenderAll(widgets', labels', battery_states', battery_state_valid')
                = labels']_vars

\* C13 witness: a tick has just rendered an instance that shows one slot and
\* hides another.
C13_Witness ==
    /\ last.op = "tick"
    /\ \E w \in Range(widgets) : \E i, j \in Slots :
        ~labels[w][i + 1].hidden /\ labels[w][j + 1].hidden

\* C14: after every render pass (the update of an init or an event, a tick)
\* a slot whose active flag is false shows nothing in any registered
\* instance, whatever level it still stores: threshold variant
\* (battery_state_valid) and active variant (battery_active).
C14_InactiveSlotsHidden ==
    [][(last'.op \in {"init", "peripheral", "central", "usb", "tick"})
        => /\ variant = "threshold"
              => \A w \in Range(widgets'), i \in Slots :
                    ~battery_state_valid'[i] => Shown(labels'[w])[i + 1] = <<>>
           /\ variant = "active"
              => \A w \in Range(widgets'), i \in PeripheralSlots :
                    (~battery_active'[i] /\ labels'[w] # <<>>)
                    => Shown(labels'[w])[i + 1] = <<>>]_vars

\* C14 witness: a zero reading has just deactivated a slot that keeps its
\* nonzero level, and the render pass has hidden the label with its old text.
C14_Witness ==
    /\ variant = "threshold"
    /\ last.op = "peripheral" /\ last.case = "clear"
    /\ \E w \in Range(widgets), i \in Slots :
        /\ ~battery_state_valid[i] /\ battery_states[i].level # 0
        /\ labels[w][i + 1].hidden /\ labels[w][i + 1].text # <<>>

\* The display instances that are registered: initialised and not cleaned up.
Registered == {w \in Widgets : labels[w] # <<>>}

\* C15: in the active variant, after any sequence of init and cleanup calls
\* the registry holds each instance at most once (a walk over it ends and
\* meets no node twice), it holds exactly the registered instances, and its
\* tail is its last node.
C15_RegistryHoldsEachOnce ==
    variant = "active"
    => /\ ~slist_cyclic(slist)
       /\ Range(slist_nodes(slist)) = Registered
       /\ slist.tail = IF widgets = <<>> THEN NULL ELSE widgets[Len(widgets)]

\* ------------------------------------------- the scenario of three slots
\* SpecScenario runs the threshold variant with a reserved central slot
\* (three slots), one display instance, and the levels and sources of the
\* example: every order of these events, the example's among them.
ScenarioLevels  == {0, 77, 78, 80}
ScenarioCentral == {0, 80}
ScenarioSources == {1, 2}

InitScenario ==
    /\ Init
    /\ variant = "threshold"
    /\ SOURCE_OFFSET = 1

NextScenario ==
    \/ \E hw \in ScenarioCentral, usb \in DongleUsbPowered : DongleInit(1, hw, usb)
    \/ \E s \in ScenarioSources, l \in ScenarioLevels : PeripheralEvent(s, l)
    \/ \E l \in ScenarioCentral, usb \in DongleUsbPowered : CentralEvent(l, usb)
    \/ \E hw \in ScenarioCentral, usb \in DongleUsbPowered : UsbEvent(hw, usb)
    \/ Tick

SpecScenario == InitScenario /\ [][NextScenario]_vars

\* The table of the scenario: per slot its level and whether it is active.
TableIs(states, valid, l0, v0, l1, v1, l2, v2) ==
    /\ states[0].level = l0 /\ valid[0] = v0
    /\ states[1].level = l1 /\ valid[1] = v1
    /\ states[2].level = l2 /\ valid[2] = v2

\* C16: from the all-inactive table, a central reading 80, then peripheral
\* readings (source 1, 77), (source 2, 78) and (source 1, 0): slot 1 holds 77
\* after the second event; the table ends as 80 / 78 / inactive, shown as
\* " 80%", " 78%" and a hidden label; the last event changes nothing shown.
C16_ScenarioThreeSlots ==
    [][/\ TableIs(battery_states, battery_state_valid, 0, FALSE, 0, FALSE, 0, FALSE)
          => \A usb \in BOOLEAN :
                CentralEvent(80, usb)
                => TableIs(battery_states', battery_state_valid',
                           80, TRUE, 0, FALSE, 0, FALSE)
       /\ TableIs(battery_states, battery_state_valid, 80, TRUE, 0, FALSE, 0, FALSE)
          => (PeripheralEvent(1, 77)
                => TableIs(battery_states', battery_state_valid',
                           80, TRUE, 77, TRUE, 0, FALSE))
       /\ TableIs(battery_states, battery_state_valid, 80, TRUE, 77, TRUE, 0, FALSE)
          => (PeripheralEvent(2, 78)
                => TableIs(battery_states', battery_state_valid',
                           80, TRUE, 78, TRUE, 0, FALSE))
       /\ TableIs(battery_states, battery_state_valid, 80, TRUE, 78, TRUE, 0, FALSE)
          => (PeripheralEvent(1, 0)
                => /\ TableIs(battery_states', battery_state_valid',
                              80, TRUE, 78, TRUE, 0, FALSE)
                   /\ Shown(labels'[1]) = Shown(labels[1])
                   /\ Shown(labels'[1]) = << <<" ", "8", "0", "%">>,
                                             <<" ", "7", "8", "%">>, <<>> >>)]_vars

\* C16 witness: the end of the scenario: the zero reading has run on the
\* table 80 / 78 / inactive, whose slot 1 was last written by source 2.
C16_Witness ==
    /\ last.op = "peripheral" /\ last.case = "clear"
    /\ TableIs(battery_states, battery_state_valid, 80, TRUE, 78, TRUE, 0, FALSE)
    /\ boundSource[1] = 2 /\ boundSource[2] = NoSource
    /\ Shown(labels[1]) = << <<" ", "8", "0", "%">>, <<" ", "7", "8", "%">>, <<>> >>

\* ------------------------------------------- the choice of the slot
\* The least index of a nonempty set of slots.
LowestIndex(S) == CHOOSE i \in S : \A j \in S : i <= j

\* The active non-reserved slots whose level is within the tolerance of L.
NearSlots(L) ==
    {i \in ActiveNonReserved : abs_diff(battery_states[i].level, L) <= BATTERY_THRESHOLD}

\* The slot the priority rule names for a nonzero reading of level L.
PrioritySlot(L) ==
    IF NearSlots(L) # {} THEN LowestIndex(NearSlots(L))
    ELSE IF NonReserved \ ActiveNonReserved # {}
         THEN LowestIndex(NonReserved \ ActiveNonReserved)
         ELSE SOURCE_OFFSET

\* C17: in the threshold variant a nonzero peripheral reading of level L,
\* whatever its source id, writes exactly the slot of the priority rule
\* (lowest active non-reserved slot within the tolerance, else lowest
\* inactive non-reserved slot, else slot SOURCE_OFFSET): after it that slot
\* is active with level L and every other slot is as before.
C17_SlotChosenByPriority ==
    [][(last'.op = "peripheral" /\ variant = "threshold")
        => \A s \in ThresholdSources, L \in Levels \ {0} :
            PeripheralEvent(s, L)
            => /\ battery_states'[PrioritySlot(L)].level = L
               /\ battery_state_valid'[PrioritySlot(L)]
               /\ \A i \in Slots \ {PrioritySlot(L)} :
                    /\ battery_states'[i] = battery_states[i]
                    /\ battery_state_valid'[i] = battery_state_valid[i]]_vars

\* C17 witness: a reading has just been written to a matching slot although
\* a non-reserved slot of lower index was inactive.
C17_Witness ==
    /\ variant = "threshold"
    /\ last.op = "peripheral" /\ last.case = "match"
    /\ \E i, j \in NonReserved :
        /\ i < j
        /\ ~battery_state_valid[i]
        /\ battery_state_valid[j] /\ boundSource[j] \in Sources
        /\ \A k \in ActiveNonReserved \ {j} :
            abs_diff(battery_states[k].level, battery_states[j].level) > BATTERY_THRESHOLD

\* ------------------------------------------- eviction
\* C18: in the threshold variant a non-reserved slot goes from active to
\* inactive only in the store of a peripheral reading of level 0: no nonzero
\* peripheral reading, central reading, tick or other step deactivates it.
C18_OnlyZeroReadingDeactivates ==
    [][\A i \in NonReserved :
        (battery_state_valid[i] /\ ~battery_state_valid'[i])
        => /\ pc = "p_clear"
           /\ inflight.kind = "peripheral" /\ inflight.level = 0]_vars

\* ------------------------------------------- the registry during a pass
\* C19: no pass over the widgets list (the timer's or the update
\* callback's) runs while sys_slist_append is changing the list, also when
\* a second instance is initialised after the poll timer was started.
C19_NoPassDuringAppend ==
    [][(Tick \/ Notify) => pc \notin AppendSteps]_vars

\* ------------------------------------------- the poll timer
\* C20: over any number of inits of the threshold variant the poll timer is
\* initialised and started exactly once, at the end of the first init, and
\* never stopped or started again: the timer changes only there, and every
\* init ends with the timer running after one start.
C20_TimerStartedOnce ==
    [][/\ battery_poll_timer' # battery_poll_timer
            => /\ pc = "i_timer" /\ inflight.kind = "init"
               /\ Len(widgets) = 1
               /\ battery_poll_timer = [running |-> FALSE, starts |-> 0]
               /\ battery_poll_timer' = [running |-> TRUE, starts |-> 1]
       /\ (pc = "i_timer" /\ pc' = "idle")
            => battery_poll_timer' = [running |-> TRUE, starts |-> 1]]_vars

\* C20 witness: the init of a second instance has just run its last lines,
\* with the timer running since the first.
C20_Witness ==
    /\ Len(widgets) = 2 /\ pc = "idle" /\ last.op = "init"
    /\ battery_poll_timer_started
    /\ battery_poll_timer = [running |-> TRUE, starts |-> 1]

\* ------------------------------------------- a tick inside a handler
\* What slot i shows once the running handler has made all its stores.
ShownAfter(i) ==
    IF i # inflight.idx
    THEN slot_shown(battery_states, battery_state_valid, i)
    ELSE IF inflight.level = 0 THEN <<>> ELSE FmtPercent(3, inflight.level)

\* What slot i showed when the running handler was entered.
ShownBefore(i) ==
    IF i # inflight.idx
    THEN slot_shown(battery_states, battery_state_valid, i)
    ELSE inflight.shown

====
